---- MODULE Spec2Model ----
(***************************************************************************)
(* Quick Cleaner (quick_cleaner_V2.py): the deletion primitives over a     *)
(* file system with symbolic links, the Chromium cache locator, the        *)
(* recycle-bin adapter, the worker thread CleanerThread and the start /    *)
(* done handlers of the QuickCleaner window.                               *)
(*                                                                         *)
(* SpecFS  : one call of a primitive or of clean_chromium_user_data on a   *)
(*           file system drawn from a bounded family of trees.             *)
(* Spec    : one run of the worker thread, with every task outcome and     *)
(*           every answer of the shell.                                    *)
(* SpecUI  : the window's event loop and the worker threads it starts,     *)
(*           run after run.                                                *)
(***************************************************************************)
EXTENDS Integers, Sequences, FiniteSets, TLC

VARIABLES
    fs,         \* the file system: physical path -> node
    fs0,        \* the file system as it was before the last call
    last,       \* the last call: [op, arg, ret, raised]
    checks,     \* browser_checks[name].isChecked()
    cbEnabled,  \* browser_checks[name].isEnabled()
    btnEnabled, \* clean_btn.isEnabled()
    ui,         \* status_label, progress bar, total_label
    cleaner,    \* self.cleaner: 0 (None) or the index of a worker
    workers,    \* every CleanerThread constructed so far
    log,        \* every signal emitted so far, in emission order
    delivered,  \* how many of them the event loop has dispatched to a slot
    closeEnabled, \* close_btn.isEnabled()
    bin,        \* bytes held by the recycle bin
    lastReq,    \* the last start_clean call: who made it and how it ended
    env         \* what the surroundings may do: task outcomes, shell answers,
                \* and how many more threads the model lets start_clean create

vars == <<fs, fs0, last, checks, cbEnabled, btnEnabled, ui, cleaner, workers,
          log, delivered, closeEnabled, bin, lastReq, env>>

fsVars == <<fs, fs0, last>>
runVars == <<checks, cbEnabled, btnEnabled, ui, cleaner, workers, log,
             delivered, closeEnabled, bin, lastReq, env>>

(***************************************************************************)
(* Bounds.                                                                 *)
(***************************************************************************)
MaxNest == 1        \* depth of the chain of nested directories in a tree
MaxHops == 2        \* symbolic links followed while resolving one path
NumBrowsers == 1    \* how many of the six browser check boxes are modelled
MaxFreed == 1       \* the most bytes one task reports
MaxBin == 1         \* the most bytes the recycle bin holds
MaxRuns == 2        \* threads start_clean may create in one behaviour of SpecUI

(***************************************************************************)
(* File system.  A path is a sequence of names; <<>> is the drive root.    *)
(* A node is a regular file, a directory or a symbolic link.               *)
(*   file mode: "rw", "ro" (read-only attribute: unlink fails until chmod) *)
(*              or "locked" (open elsewhere: unlink fails)                 *)
(*   dir  mode: "rw" or "denied" (listing it, or stat of anything below    *)
(*              it, fails with PermissionError)                            *)
(***************************************************************************)
File(sz, m) == [kind |-> "file", size |-> sz, mode |-> m, target |-> <<>>]
Dir(m) == [kind |-> "dir", size |-> 0, mode |-> m, target |-> <<>>]
Link(t) == [kind |-> "link", size |-> 0, mode |-> "rw", target |-> t]

IsPrefix(p, q) == Len(p) <= Len(q) /\ SubSeq(q, 1, Len(p)) = p
Under(p, q) == Len(p) < Len(q) /\ IsPrefix(p, q)     \* q strictly below p
Children(f, p) == {q \in DOMAIN f : Len(q) = Len(p) + 1 /\ IsPrefix(p, q)}
ChildNames(f, p) == {q[Len(q)] : q \in Children(f, p)}

\* os.stat / os.lstat: the physical path a nominal path names.  Links in the
\* directory part are always followed; a link in the last component only by
\* stat.  st is "ok", "noent" (ENOENT, ENOTDIR, ELOOP) or "eacces".
RECURSIVE Walk(_, _, _, _, _, _)
Walk(f, cur, p, i, follow, fuel) ==
    IF i > Len(p) THEN [st |-> "ok", path |-> cur]
    ELSE IF cur # <<>> /\ f[cur].kind # "dir" THEN [st |-> "noent", path |-> cur]
    ELSE IF cur # <<>> /\ f[cur].mode = "denied" THEN [st |-> "eacces", path |-> cur]
    ELSE LET cand == Append(cur, p[i]) IN
         IF cand \notin DOMAIN f THEN [st |-> "noent", path |-> cand]
         ELSE IF f[cand].kind = "link" /\ (i < Len(p) \/ follow) THEN
              IF fuel = 0 THEN [st |-> "noent", path |-> cand]
              ELSE LET t == Walk(f, <<>>, f[cand].target, 1, TRUE, fuel - 1) IN
                   IF t.st # "ok" THEN t
                   ELSE Walk(f, t.path, p, i + 1, follow, fuel)
         ELSE Walk(f, cand, p, i + 1, follow, fuel)

Stat(f, p) == Walk(f, <<>>, p, 1, TRUE, MaxHops)
Lstat(f, p) == Walk(f, <<>>, p, 1, FALSE, MaxHops)

\* pathlib's Path.exists / is_dir / is_file / is_symlink: "T", "F", or "E"
\* when the call raises.  Up to Python 3.13 pathlib swallows only ENOENT,
\* ENOTDIR, EBADF and ELOOP and re-raises PermissionError (strict); from 3.14
\* on the error is swallowed and the answer is False.
Answer(r, yes, strict) ==
    CASE r.st = "ok" -> IF yes THEN "T" ELSE "F"
      [] r.st = "noent" -> "F"
      [] OTHER -> IF strict THEN "E" ELSE "F"

KindAt(f, r) == IF r.st = "ok" /\ r.path # <<>> THEN f[r.path].kind ELSE "none"

PExists(f, p, strict) == Answer(Stat(f, p), TRUE, strict)
PIsDir(f, p, strict) == Answer(Stat(f, p), KindAt(f, Stat(f, p)) = "dir", strict)
PIsFile(f, p, strict) == Answer(Stat(f, p), KindAt(f, Stat(f, p)) = "file", strict)
PIsSymlink(f, p, strict) == Answer(Lstat(f, p), KindAt(f, Lstat(f, p)) = "link", strict)

\* os.DirEntry.is_dir() / is_file(): follow the link, errors give False.
EntryIsDir(f, p) == KindAt(f, Stat(f, p)) = "dir"
EntryIsFile(f, p) == KindAt(f, Stat(f, p)) = "file"

Remove(f, q) == [x \in DOMAIN f \ {q} |-> f[x]]

\* os.scandir(p): the names in the directory p names, or "fail".
CanList(f, p) ==
    LET r == Stat(f, p) IN
    r.st = "ok" /\ r.path # <<>> /\ f[r.path].kind = "dir" /\ f[r.path].mode # "denied"
Listing(f, p) == ChildNames(f, Stat(f, p).path)

\* os.chmod(p, S_IWRITE | S_IREAD): clears the read-only attribute.
Chmod(f, p) ==
    LET r == Stat(f, p) IN
    IF r.st = "ok" /\ r.path # <<>> /\ f[r.path].kind = "file" /\ f[r.path].mode = "ro"
    THEN [f EXCEPT ![r.path].mode = "rw"]
    ELSE f

\* Path.unlink(missing_ok=True): [fs, ok]; ok = FALSE when it raises.
Unlink(f, p) ==
    LET r == Lstat(f, p) IN
    IF r.st = "noent" THEN [fs |-> f, ok |-> TRUE]
    ELSE IF r.st # "ok" \/ r.path = <<>> THEN [fs |-> f, ok |-> FALSE]
    ELSE IF f[r.path].kind = "dir" THEN [fs |-> f, ok |-> FALSE]
    ELSE IF f[r.path].kind = "file" /\ f[r.path].mode # "rw" THEN [fs |-> f, ok |-> FALSE]
    ELSE [fs |-> Remove(f, r.path), ok |-> TRUE]

\* Path.rmdir(), errors ignored by every caller.  The program runs on Windows
\* (ctypes.windll), where RemoveDirectoryW on a directory symbolic link
\* removes the link and leaves its target alone.
Rmdir(f, p) ==
    LET r == Lstat(f, p) IN
    IF r.st # "ok" \/ r.path = <<>> THEN f
    ELSE IF f[r.path].kind = "dir" /\ Children(f, r.path) = {} THEN Remove(f, r.path)
    ELSE IF f[r.path].kind = "link" /\ KindAt(f, Stat(f, p)) = "dir" THEN Remove(f, r.path)
    ELSE f


(***************************************************************************)
(* Safe deletion primitives.  Each gives [fs, ret, raised]: the file       *)
(* system it leaves, the bytes it reports, and whether the call raised.    *)
(* Intermediate results are passed as operator arguments, which TLC        *)
(* evaluates once.                                                         *)
(***************************************************************************)
Returns(f, n) == [fs |-> f, ret |-> n, raised |-> FALSE]
Raises(f) == [fs |-> f, ret |-> 0, raised |-> TRUE]
\* "freed += k" ahead of the rest of a loop
Sum(k, rest) == [rest EXCEPT !.ret = k + @]
Pick(S) == CHOOSE x \in S : TRUE

SizeAt(f, r) == IF r.st = "ok" /\ r.path # <<>> THEN f[r.path].size ELSE 0

\* "p.unlink(missing_ok=True); return int(size)", or "return 0" from the
\* outer except when unlink raises
UnlinkAndReport(u, f1, size) == IF u.ok THEN Returns(u.fs, size) ELSE Returns(f1, 0)

\* size = p.stat().st_size (0 when stat fails); os.chmod; unlink
StatChmodUnlink(f, f1, p) == UnlinkAndReport(Unlink(f1, p), f1, SizeAt(f, Stat(f, p)))

\* safe_remove_file with the is_symlink test left out: stat and chmod follow
\* the link, unlink removes the link itself.
safe_remove_file_no_symlink_test(f, p, strict) ==
    IF PExists(f, p, strict) # "T" THEN Returns(f, 0)
    ELSE StatChmodUnlink(f, Chmod(f, p), p)

\* The whole body is inside try/except Exception: a raising exists() or
\* is_symlink() ("E") and a raising unlink() all end in "return 0".
safe_remove_file(f, p, strict) ==
    IF PExists(f, p, strict) # "T" THEN Returns(f, 0)
    ELSE IF PIsSymlink(f, p, strict) # "F" THEN Returns(f, 0)
    ELSE StatChmodUnlink(f, Chmod(f, p), p)

\* "for name in files: freed += safe_remove_file(root_p / name)".  No step of
\* the loop raises and removals of distinct entries commute, so the order in
\* which the names are listed does not show in the result.
RECURSIVE RemoveFiles(_, _, _, _)
RemoveFilesRest(r, dirp, names, strict) == Sum(r.ret, RemoveFiles(r.fs, dirp, names, strict))
RemoveFiles(f, dirp, names, strict) ==
    IF names = {} THEN Returns(f, 0)
    ELSE RemoveFilesRest(safe_remove_file(f, Append(dirp, Pick(names)), strict),
                         dirp, names \ {Pick(names)}, strict)

\* "for name in dirs: try: dp.rmdir() except Exception: pass"
RECURSIVE RemoveDirs(_, _, _)
RemoveDirs(f, dirp, names) ==
    IF names = {} THEN f
    ELSE RemoveDirs(Rmdir(f, Append(dirp, Pick(names))), dirp, names \ {Pick(names)})

\* os.walk(path, topdown=False) with the loop body of wipe_tree applied at
\* each directory it yields.  dirs and files are classified when the
\* directory is listed (DirEntry.is_dir, following links); walk descends only
\* into the dirs that are not symbolic links; a directory it cannot list
\* yields nothing (onerror is None).
RECURSIVE WalkBottomUp(_, _, _)
RECURSIVE WalkInto(_, _, _, _)
WalkDirs(f, top) == {n \in Listing(f, top) : EntryIsDir(f, Append(top, n))}
WalkRmdirs(rf, top, dirs) == [rf EXCEPT !.fs = RemoveDirs(@, top, dirs)]
WalkYield(sub, top, files, dirs, strict) ==
    Sum(sub.ret, WalkRmdirs(RemoveFiles(sub.fs, top, files, strict), top, dirs))
WalkBottomUp(f, top, strict) ==
    IF ~CanList(f, top) THEN Returns(f, 0)
    ELSE WalkYield(WalkInto(f, top, WalkDirs(f, top), strict), top,
                   Listing(f, top) \ WalkDirs(f, top), WalkDirs(f, top), strict)

WalkIntoRest(here, top, dirs, strict) == Sum(here.ret, WalkInto(here.fs, top, dirs, strict))
WalkInto(f, top, dirs, strict) ==
    IF dirs = {} THEN Returns(f, 0)
    ELSE WalkIntoRest(IF KindAt(f, Lstat(f, Append(top, Pick(dirs)))) = "link"
                      THEN Returns(f, 0)
                      ELSE WalkBottomUp(f, Append(top, Pick(dirs)), strict),
                      top, dirs \ {Pick(dirs)}, strict)

\* wipe_tree that empties the tree but never removes the top directory.
wipe_tree_keeps_top(f, path, strict) ==
    IF PExists(f, path, strict) # "T" THEN Returns(f, 0)
    ELSE IF PIsSymlink(f, path, strict) # "F" THEN Returns(f, 0)
    ELSE WalkBottomUp(f, path, strict)

\* exists() and is_symlink() are inside the try: when one raises, "except
\* Exception: pass" leads to "return freed" with freed = 0.
wipe_tree(f, path, strict) ==
    IF PExists(f, path, strict) # "T" THEN Returns(f, 0)
    ELSE IF PIsSymlink(f, path, strict) # "F" THEN Returns(f, 0)
    ELSE [WalkBottomUp(f, path, strict) EXCEPT !.fs = Rmdir(@, path)]

\* One entry of the scandir loop of wipe_dir_contents.  is_dir, is_symlink
\* and is_file are pathlib calls inside the try: raised = TRUE says one of
\* them raised, which ends the loop.
WipeEntry(f, p, strict) ==
    IF PIsDir(f, p, strict) = "E" THEN Raises(f)
    ELSE IF PIsDir(f, p, strict) = "T" /\ PIsSymlink(f, p, strict) = "E" THEN Raises(f)
    ELSE IF PIsDir(f, p, strict) = "T" /\ PIsSymlink(f, p, strict) = "F"
         THEN wipe_tree(f, p, strict)
    ELSE IF PIsFile(f, p, strict) = "E" THEN Raises(f)
    ELSE IF PIsFile(f, p, strict) = "T" THEN safe_remove_file(f, p, strict)
    ELSE Returns(f, 0)

RECURSIVE WipeEntries(_, _, _, _)
WipeEntriesRest(r, path, names, strict) ==
    IF r.raised THEN Returns(r.fs, 0)
    ELSE Sum(r.ret, WipeEntries(r.fs, path, names, strict))
WipeEntries(f, path, names, strict) ==
    IF names = {} THEN Returns(f, 0)
    ELSE WipeEntriesRest(WipeEntry(f, Append(path, Pick(names)), strict),
                         path, names \ {Pick(names)}, strict)

\* path.exists() and path.is_dir() stand before the try: when one of them
\* raises, the exception leaves wipe_dir_contents.  A scandir that fails is
\* inside the try.
wipe_dir_contents(f, path, strict) ==
    IF PExists(f, path, strict) = "E" THEN Raises(f)
    ELSE IF PExists(f, path, strict) = "F" THEN Returns(f, 0)
    ELSE IF PIsDir(f, path, strict) = "E" THEN Raises(f)
    ELSE IF PIsDir(f, path, strict) = "F" THEN Returns(f, 0)
    ELSE IF ~CanList(f, path) THEN Returns(f, 0)
    ELSE WipeEntries(f, path, Listing(f, path), strict)

\* fnmatch.fnmatch(name, "<pre>*<suf>"): the name starts with pre and ends
\* with suf.  TLC's strings are atomic, so each name used in the model is
\* given with its parts <<stem, rest, extension>>.
NameParts(n) ==
    CASE n = "thumbcache_32.db" -> <<"thumbcache", "_32", ".db">>
      [] n = "thumbcacheX.dat" -> <<"thumbcache", "X", ".dat">>
      [] n = "iconcache_16.db" -> <<"iconcache", "_16", ".db">>
      [] n = "notes.txt" -> <<"notes", "", ".txt">>
      [] OTHER -> <<n, "", "">>
FnMatch(n, pat) == NameParts(n)[1] = pat.pre /\ NameParts(n)[3] = pat.suf

\* clean_thumbnails: ["thumbcache*.db", "iconcache*.db"]
ThumbPatterns == {[pre |-> "thumbcache", suf |-> ".db"], [pre |-> "iconcache", suf |-> ".db"]}

\* The entries delete_globs removes: entry.is_file() (following links) and a
\* name that matches one of the patterns.
GlobHits(f, folder, patterns) ==
    {n \in Listing(f, folder) :
        /\ EntryIsFile(f, Append(folder, n))
        /\ \E pat \in patterns : FnMatch(n, pat)}

\* As in wipe_dir_contents, exists() and is_dir() stand before the try.
delete_globs(f, folder, patterns, strict) ==
    IF PExists(f, folder, strict) = "E" THEN Raises(f)
    ELSE IF PExists(f, folder, strict) = "F" THEN Returns(f, 0)
    ELSE IF PIsDir(f, folder, strict) = "E" THEN Raises(f)
    ELSE IF PIsDir(f, folder, strict) = "F" THEN Returns(f, 0)
    ELSE IF ~CanList(f, folder) THEN Returns(f, 0)
    ELSE RemoveFiles(f, folder, GlobHits(f, folder, patterns), strict)

(***************************************************************************)
(* Cache locator.                                                          *)
(***************************************************************************)
rels == << <<"Cache">>, <<"Code Cache">>, <<"GPUCache">>, <<"ShaderCache">>,
           <<"DawnCache">>, <<"Media Cache">>, <<"Service Worker", "CacheStorage">> >>

\* The orders in which os.scandir may list a set of names.
Orders(S) == {s \in [1..Cardinality(S) -> S] : \A i, j \in 1..Cardinality(S) : s[i] = s[j] => i = j}

\* candidates = [root] + the entries of root that are directories (DirEntry.
\* is_dir follows links); a root that cannot be listed leaves [root].
ProfileNames(f, root) ==
    IF CanList(f, root) THEN {n \in Listing(f, root) : EntryIsDir(f, Append(root, n))} ELSE {}
Candidates(root, order) == <<root>> \o [i \in 1..Len(order) |-> Append(root, order[i])]

\* "for base in candidates: for rel in rels: freed += wipe_dir_contents(base / rel)"
\* i counts the (base, rel) pairs; a raising wipe_dir_contents ends the call.
RECURSIVE WipeRels(_, _, _, _)
WipeRelsRest(r, cands, i, strict) ==
    IF r.raised THEN Raises(r.fs) ELSE Sum(r.ret, WipeRels(r.fs, cands, i, strict))
WipeRels(f, cands, i, strict) ==
    IF i > Len(cands) * Len(rels) THEN Returns(f, 0)
    ELSE WipeRelsRest(wipe_dir_contents(f, cands[((i - 1) \div Len(rels)) + 1]
                                             \o rels[((i - 1) % Len(rels)) + 1], strict),
                      cands, i + 1, strict)

\* root.exists() stands outside any try.
clean_chromium_user_data(f, root, order, strict) ==
    IF PExists(f, root, strict) = "E" THEN Raises(f)
    ELSE IF PExists(f, root, strict) = "F" THEN Returns(f, 0)
    ELSE WipeRels(f, Candidates(root, order), 1, strict)

(***************************************************************************)
(* The file systems the primitives are run on.  UserData is a browser      *)
(* root: its own Cache directory holds a mix of entries, and two profile   *)
(* directories sit beside it.  Explorer is a directory elsewhere on the    *)
(* drive, the target of every directory link; notes.txt in it is the       *)
(* target of every file link.                                              *)
(***************************************************************************)
UD == <<"UserData">>
EX == <<"Explorer">>
Notes == <<"Explorer", "notes.txt">>
Gone == <<"Explorer", "gone">>

Outside ==
    { <<EX, Dir("rw")>>,
      <<Notes, File(64, "rw")>>,
      <<Append(EX, "thumbcache_32.db"), File(32, "rw")>>,
      <<Append(EX, "thumbcacheX.dat"), File(16, "rw")>>,
      <<EX \o <<"Cache">>, Dir("rw")>>,
      <<EX \o <<"Cache", "y">>, File(128, "rw")>> }

\* The entry data_0 of the root's Cache directory.
EntryChoices == {"absent", "rw", "ro", "locked", "linkF", "linkD", "linkX"}
EntryPairs(p, c) ==
    CASE c = "absent" -> {}
      [] c = "rw" -> {<<p, File(512, "rw")>>}
      [] c = "ro" -> {<<p, File(512, "ro")>>}
      [] c = "locked" -> {<<p, File(512, "locked")>>}
      [] c = "linkF" -> {<<p, Link(Notes)>>}
      [] c = "linkD" -> {<<p, Link(EX)>>}
      [] OTHER -> {<<p, Link(Gone)>>}

\* A chain of k nested directories sub/sub/... with one entry, index, in the
\* innermost.
LeafChoices == {"absent", "file", "linkF", "linkD"}
RECURSIVE SubPath(_, _)
SubPath(p, k) == IF k = 0 THEN p ELSE Append(SubPath(p, k - 1), "sub")
NestPairs(p, k, leaf) ==
    {<<SubPath(p, j), Dir("rw")>> : j \in 1..k}
    \cup (CASE leaf = "absent" -> {}
            [] leaf = "file" -> {<<Append(SubPath(p, k), "index"), File(300, "rw")>>}
            [] leaf = "linkF" -> {<<Append(SubPath(p, k), "index"), Link(Notes)>>}
            [] OTHER -> {<<Append(SubPath(p, k), "index"), Link(EX)>>})

CacheChoices ==
    {[c |-> "absent", e |-> "absent", k |-> 0, leaf |-> "absent"],
     [c |-> "link", e |-> "absent", k |-> 0, leaf |-> "absent"]}
    \cup {[c |-> "dir", e |-> e, k |-> 0, leaf |-> "absent"] : e \in EntryChoices}
    \cup {[c |-> "dir", e |-> x[1], k |-> x[2], leaf |-> x[3]] :
              x \in EntryChoices \X (1..MaxNest) \X LeafChoices}
CachePairs(p, ch) ==
    CASE ch.c = "absent" -> {}
      [] ch.c = "link" -> {<<p, Link(EX)>>}
      [] OTHER -> {<<p, Dir("rw")>>} \cup EntryPairs(Append(p, "data_0"), ch.e)
                  \cup NestPairs(p, ch.k, ch.leaf)

ProfileChoices == {"absent", "plain", "nocache", "link", "cachelink", "denied"}
ProfilePairs(p, c) ==
    CASE c = "absent" -> {}
      [] c = "plain" -> {<<p, Dir("rw")>>, <<Append(p, "Preferences"), File(10, "rw")>>,
                         <<Append(p, "Cache"), Dir("rw")>>,
                         <<p \o <<"Cache", "data_1">>, File(1000, "rw")>>}
      [] c = "nocache" -> {<<p, Dir("rw")>>, <<Append(p, "Preferences"), File(10, "rw")>>}
      [] c = "link" -> {<<p, Link(EX)>>}
      [] c = "cachelink" -> {<<p, Dir("rw")>>, <<Append(p, "Preferences"), File(10, "rw")>>,
                             <<Append(p, "Cache"), Link(EX)>>}
      [] OTHER -> {<<p, Dir("denied")>>, <<Append(p, "Cache"), Dir("rw")>>,
                   <<p \o <<"Cache", "data_1">>, File(1000, "rw")>>}

SecondProfileChoices == {"absent", "plain", "denied"}

TreeOf(pairs) == [p \in {x[1] : x \in pairs} |-> (CHOOSE x \in pairs : x[1] = p)[2]]

FileSystems ==
    {TreeOf(Outside), TreeOf(Outside \cup {<<UD, Link(EX)>>})}
    \cup {TreeOf(Outside \cup {<<UD, Dir("rw")>>}
                 \cup CachePairs(Append(UD, "Cache"), ch)
                 \cup ProfilePairs(Append(UD, "Default"), pc[1])
                 \cup ProfilePairs(Append(UD, "Profile 1"), pc[2])) :
              ch \in CacheChoices, pc \in ProfileChoices \X SecondProfileChoices}

\* The paths the primitives are called with.
ArgPaths ==
    {UD, Append(UD, "Cache"), UD \o <<"Cache", "data_0">>, UD \o <<"Cache", "sub">>,
     UD \o <<"Cache", "sub", "index">>, Append(UD, "Default"),
     UD \o <<"Default", "Cache">>, UD \o <<"Default", "Cache", "data_1">>,
     UD \o <<"Default", "Preferences">>, EX, Notes, <<"missing">>}

NoCall == [op |-> "none", arg |-> <<>>, ret |-> 0, raised |-> FALSE]

\* The interpreters a call is run on: strict = TRUE is a pathlib that
\* re-raises PermissionError (Python up to 3.13), FALSE one that answers False
\* (3.14).  They differ only where a stat is refused.
Interpreters(f) == IF \E q \in DOMAIN f : f[q].mode = "denied" THEN BOOLEAN ELSE {TRUE}

(***************************************************************************)
(* One call of a primitive.  strict is the interpreter the program runs    *)
(* on: whether pathlib re-raises PermissionError.                          *)
(***************************************************************************)
\* The call is made once; r is what it gave.
Called(op, arg, r) ==
    /\ last.op = "none"
    /\ fs' = r.fs
    /\ last' = [op |-> op, arg |-> arg, ret |-> r.ret, raised |-> r.raised]
    /\ fs0' = fs
    /\ UNCHANGED runVars

CallSafeRemoveFile(p, strict) == Called("safe_remove_file", p, safe_remove_file(fs, p, strict))

CallWipeTree(p, strict) == Called("wipe_tree", p, wipe_tree(fs, p, strict))

CallWipeDirContents(p, strict) ==
    Called("wipe_dir_contents", p, wipe_dir_contents(fs, p, strict))

\* clean_thumbnails' call, on any folder
CallDeleteGlobs(p, strict) ==
    Called("delete_globs", p, delete_globs(fs, p, ThumbPatterns, strict))

CallCleanChromium(root, strict) ==
    \E order \in Orders(ProfileNames(fs, root)) :
        Called("clean_chromium_user_data", root,
               clean_chromium_user_data(fs, root, order, strict))

(***************************************************************************)
(* Recycle bin.  qok / eok: whether SHQueryRecycleBinW / SHEmptyRecycleBinW *)
(* succeed.  A failing HRESULT makes ctypes raise OSError, which each try  *)
(* swallows; "before" keeps the size the query gave.                       *)
(***************************************************************************)
Max(a, b) == IF a >= b THEN a ELSE b

empty_recycle_bin(b, qok, eok) ==
    LET before == IF qok THEN b ELSE 0
    IN [ret |-> Max(0, before), bin |-> IF eok THEN 0 ELSE b]

(***************************************************************************)
(* Task catalog.                                                           *)
(***************************************************************************)
BASE_TASKS == <<"Recycle Bin", "User Temp", "Recent Items", "Windows Thumbnails">>
BrowserNames == <<"Google Chrome", "Microsoft Edge", "Brave", "Vivaldi", "Opera", "Firefox">>
BROWSER_TASKS ==
    [b \in {BrowserNames[i] : i \in 1..Len(BrowserNames)} |->
        CASE b = "Google Chrome" -> "Google Chrome Cache"
          [] b = "Microsoft Edge" -> "Microsoft Edge Cache"
          [] b = "Brave" -> "Brave Cache"
          [] b = "Vivaldi" -> "Vivaldi Cache"
          [] b = "Opera" -> "Opera Cache"
          [] OTHER -> "Firefox Cache"]

\* The check boxes the model keeps: the first NumBrowsers of the six.
Shown == 1..(IF NumBrowsers < Len(BrowserNames) THEN NumBrowsers ELSE Len(BrowserNames))
Browsers == {BrowserNames[i] : i \in Shown}

\* What a task's callable may do when the thread calls it: raise, return
\* None, or return an integer (a negative one included).
AllOutcomes ==
    {[k |-> "raise", v |-> 0], [k |-> "none", v |-> 0]}
    \cup {[k |-> "int", v |-> n] : n \in (-1)..MaxFreed}

\* "freed = int(func() or 0)" with "except Exception: freed = 0", without the
\* clamp of line 293.
FreedUnclamped(o) == IF o.k = "int" THEN o.v ELSE 0

\* Lines 289-293: what one call adds to total_freed.
Freed(o) == Max(0, IF o.k = "int" THEN o.v ELSE 0)

(***************************************************************************)
(* QProgressBar, as the handlers use it.                                   *)
(***************************************************************************)
SetRange(u, mx) ==
    IF mx = u.progMax THEN u
    ELSE [u EXCEPT !.progMax = Max(0, mx),
                   !.progValue = IF u.progValue > Max(0, mx) THEN -1 ELSE u.progValue]
SetValue(u, v) ==
    IF (v > u.progMax \/ v < 0) /\ u.progMax # 0 THEN u ELSE [u EXCEPT !.progValue = v]

CheckedCount(c) == Cardinality({b \in Browsers : c[b]})
\* update_progress_max
update_progress_max(u, c) == SetRange(u, Len(BASE_TASKS) + CheckedCount(c))

\* build_task_list: the base tasks, then the checked browsers in the order of
\* browser_checks.
RECURSIVE BrowserTasks(_, _)
BrowserTasks(c, i) ==
    IF i > Len(BrowserNames) THEN <<>>
    ELSE (IF BrowserNames[i] \in Browsers /\ c[BrowserNames[i]]
          THEN <<BROWSER_TASKS[BrowserNames[i]]>> ELSE <<>>) \o BrowserTasks(c, i + 1)
build_task_list(c) == BASE_TASKS \o BrowserTasks(c, 1)

Event(w, kind, name, step, steps, bytes) ==
    [run |-> w, kind |-> kind, name |-> name, step |-> step, steps |-> steps, bytes |-> bytes]

NoReq == [result |-> "none", src |-> "none", afterDone |-> FALSE]

\* QThread.isRunning() of self.cleaner
IsRunning == cleaner # 0 /\ workers[cleaner].running

\* Whether the done signal of self.cleaner has been dispatched to on_done.
DoneHandled ==
    cleaner # 0 /\ \E j \in 1..delivered : log[j].run = cleaner /\ log[j].kind = "done"

(***************************************************************************)
(* The window.                                                             *)
(***************************************************************************)
\* The user ticks or unticks a browser check box.
ToggleBrowser(b) ==
    /\ cbEnabled[b]
    /\ checks' = [checks EXCEPT ![b] = ~checks[b]]
    /\ UNCHANGED <<cbEnabled, btnEnabled, closeEnabled, ui, cleaner, workers, log,
                   delivered, bin, lastReq, env>>
    /\ UNCHANGED fsVars

\* start_clean without the isRunning test.
StartCleanUnguarded(src) ==
    /\ src = "button" => btnEnabled
    /\ Len(workers) < env.budget
    /\ LET tasks == build_task_list(checks) IN
         /\ ui' = [SetValue(SetRange(ui, Len(tasks)), 0) EXCEPT !.shown = 0, !.status = "Starting"]
         /\ workers' = Append(workers,
                [tasks |-> tasks, pc |-> "run", i |-> 0, steps |-> 0, total |-> 0,
                 running |-> TRUE, invoked |-> <<>>, failed |-> {}, binFail |-> FALSE])
    /\ btnEnabled' = FALSE
    /\ closeEnabled' = FALSE
    /\ cbEnabled' = [b \in Browsers |-> FALSE]
    /\ cleaner' = Len(workers) + 1
    /\ lastReq' = [result |-> "accepted", src |-> src, afterDone |-> DoneHandled]
    /\ UNCHANGED <<checks, log, delivered, bin, env>>
    /\ UNCHANGED fsVars

\* start_clean, from clean_btn.clicked (an enabled button only) or from the
\* tray action.  QThread.start() makes isRunning() true at once.
StartClean(src) ==
    /\ src = "button" => btnEnabled
    /\ IF IsRunning
       THEN /\ lastReq' = [result |-> "rejected", src |-> src, afterDone |-> DoneHandled]
            /\ UNCHANGED <<checks, cbEnabled, btnEnabled, closeEnabled, ui, cleaner,
                           workers, log, delivered, bin, env>>
       ELSE /\ Len(workers) < env.budget
            /\ LET tasks == build_task_list(checks) IN
                 /\ ui' = [SetValue(SetRange(ui, Len(tasks)), 0)
                             EXCEPT !.shown = 0, !.status = "Starting"]
                 /\ workers' = Append(workers,
                        [tasks |-> tasks, pc |-> "run", i |-> 0, steps |-> 0, total |-> 0,
                         running |-> TRUE, invoked |-> <<>>, failed |-> {},
                         binFail |-> FALSE])
            /\ btnEnabled' = FALSE
            /\ closeEnabled' = FALSE
            /\ cbEnabled' = [b \in Browsers |-> FALSE]
            /\ cleaner' = Len(workers) + 1
            /\ lastReq' = [result |-> "accepted", src |-> src, afterDone |-> DoneHandled]
            /\ UNCHANGED <<checks, log, delivered, bin, env>>
    /\ UNCHANGED fsVars

\* on_stage(name, step, total)
OnStage ==
    /\ delivered < Len(log)
    /\ log[delivered + 1].kind = "stage"
    /\ LET ev == log[delivered + 1] IN
         ui' = [SetValue(SetRange(ui, ev.steps), ev.step - 1) EXCEPT !.status = ev.name]
    /\ delivered' = delivered + 1
    /\ UNCHANGED <<checks, cbEnabled, btnEnabled, closeEnabled, cleaner, workers, log,
                   bin, lastReq, env>>
    /\ UNCHANGED fsVars

\* on_progress(total_bytes)
OnProgress ==
    /\ delivered < Len(log)
    /\ log[delivered + 1].kind = "progress"
    /\ ui' = [ui EXCEPT !.shown = log[delivered + 1].bytes]
    /\ delivered' = delivered + 1
    /\ UNCHANGED <<checks, cbEnabled, btnEnabled, closeEnabled, cleaner, workers, log,
                   bin, lastReq, env>>
    /\ UNCHANGED fsVars

\* on_done(total_bytes): set_busy(False) leaves each check box as it is
\* (not busy and cb.isEnabled()); refresh_browser_presence enables them all
\* and calls update_progress_max, which on_done then calls once more.
OnDone ==
    /\ delivered < Len(log)
    /\ log[delivered + 1].kind = "done"
    /\ LET u1 == [SetValue(ui, ui.progMax)
                     EXCEPT !.status = "Done", !.shown = log[delivered + 1].bytes]
       IN ui' = update_progress_max(update_progress_max(u1, checks), checks)
    /\ btnEnabled' = TRUE
    /\ closeEnabled' = TRUE
    /\ cbEnabled' = [b \in Browsers |-> TRUE]
    /\ delivered' = delivered + 1
    /\ UNCHANGED <<checks, cleaner, workers, log, bin, lastReq, env>>
    /\ UNCHANGED fsVars


(***************************************************************************)
(* CleanerThread.run, one step at a time.  The signals are connected to    *)
(* slots of a window that lives in the main thread, so each emit posts an  *)
(* event to the main event loop (log); the slots run later (delivered).    *)
(***************************************************************************)
Running(w) == w \in 1..Len(workers) /\ workers[w].running

\* total_freed = 0; steps = len(self.tasks); gc.collect()
WorkerBegin(w) ==
    /\ Running(w) /\ workers[w].pc = "run"
    /\ workers' = [workers EXCEPT ![w].total = 0, ![w].steps = Len(workers[w].tasks),
                                  ![w].i = 1,
                                  ![w].pc = IF Len(workers[w].tasks) = 0 THEN "done" ELSE "stage"]
    /\ UNCHANGED <<checks, cbEnabled, btnEnabled, closeEnabled, ui, cleaner, log,
                   delivered, bin, lastReq, env>>
    /\ UNCHANGED fsVars

\* self.stage.emit(name, i, steps)
WorkerStage(w) ==
    /\ Running(w) /\ workers[w].pc = "stage"
    /\ log' = Append(log, Event(w, "stage", workers[w].tasks[workers[w].i],
                                workers[w].i, workers[w].steps, 0))
    /\ workers' = [workers EXCEPT ![w].pc = "call"]
    /\ UNCHANGED <<checks, cbEnabled, btnEnabled, closeEnabled, ui, cleaner,
                   delivered, bin, lastReq, env>>
    /\ UNCHANGED fsVars

\* The call of a task that lets an exception of the task leave run(): the
\* thread ends without another signal.
WorkerCallUncaught(w) ==
    /\ Running(w) /\ workers[w].pc = "call"
    /\ workers[w].tasks[workers[w].i] # "Recycle Bin"
    /\ \E o \in env.outcomes :
         workers' = [workers EXCEPT
             ![w].invoked = Append(@, workers[w].tasks[workers[w].i]),
             ![w].failed = IF o.k = "raise" THEN @ \cup {workers[w].i} ELSE @,
             ![w].total = @ + Freed(o),
             ![w].pc = IF o.k = "raise" THEN "exit" ELSE "progress"]
    /\ UNCHANGED <<checks, cbEnabled, btnEnabled, closeEnabled, ui, cleaner, log,
                   delivered, bin, lastReq, env>>
    /\ UNCHANGED fsVars

\* "try: freed = int(func() or 0) / except Exception: freed = 0 /
\* total_freed += max(0, freed)" for a task other than the recycle bin: what
\* the task does is an input.
WorkerCall(w) ==
    /\ Running(w) /\ workers[w].pc = "call"
    /\ workers[w].tasks[workers[w].i] # "Recycle Bin"
    /\ \E o \in env.outcomes :
         workers' = [workers EXCEPT
             ![w].invoked = Append(@, workers[w].tasks[workers[w].i]),
             ![w].failed = IF o.k = "raise" THEN @ \cup {workers[w].i} ELSE @,
             ![w].total = @ + Freed(o),
             ![w].pc = "progress"]
    /\ UNCHANGED <<checks, cbEnabled, btnEnabled, closeEnabled, ui, cleaner, log,
                   delivered, bin, lastReq, env>>
    /\ UNCHANGED fsVars

\* The same lines when the task is empty_recycle_bin.  binFail records that
\* the query or the emptying failed in this call.
WorkerCallRecycleBin(w) ==
    /\ Running(w) /\ workers[w].pc = "call"
    /\ workers[w].tasks[workers[w].i] = "Recycle Bin"
    /\ \E sh \in env.shell :
         LET r == empty_recycle_bin(bin, sh[1], sh[2]) IN
           /\ bin' = r.bin
           /\ workers' = [workers EXCEPT
                  ![w].invoked = Append(@, "Recycle Bin"),
                  ![w].binFail = ~sh[1] \/ ~sh[2],
                  ![w].total = @ + Freed([k |-> "int", v |-> r.ret]),
                  ![w].pc = "progress"]
    /\ UNCHANGED <<checks, cbEnabled, btnEnabled, closeEnabled, ui, cleaner, log,
                   delivered, lastReq, env>>
    /\ UNCHANGED fsVars

\* self.progress.emit(total_freed), then the next task or the end of the loop
WorkerProgress(w) ==
    /\ Running(w) /\ workers[w].pc = "progress"
    /\ log' = Append(log, Event(w, "progress", "", 0, 0, workers[w].total))
    /\ workers' = [workers EXCEPT ![w].i = @ + 1,
                                  ![w].pc = IF workers[w].i = workers[w].steps
                                            THEN "done" ELSE "stage"]
    /\ UNCHANGED <<checks, cbEnabled, btnEnabled, closeEnabled, ui, cleaner,
                   delivered, bin, lastReq, env>>
    /\ UNCHANGED fsVars

\* self.done.emit(total_freed)
WorkerDone(w) ==
    /\ Running(w) /\ workers[w].pc = "done"
    /\ log' = Append(log, Event(w, "done", "", 0, 0, workers[w].total))
    /\ workers' = [workers EXCEPT ![w].pc = "exit"]
    /\ UNCHANGED <<checks, cbEnabled, btnEnabled, closeEnabled, ui, cleaner,
                   delivered, bin, lastReq, env>>
    /\ UNCHANGED fsVars

\* run() has returned; the thread winds up and isRunning() becomes false.
WorkerExit(w) ==
    /\ Running(w) /\ workers[w].pc = "exit"
    /\ workers' = [workers EXCEPT ![w].pc = "finished", ![w].running = FALSE]
    /\ UNCHANGED <<checks, cbEnabled, btnEnabled, closeEnabled, ui, cleaner, log,
                   delivered, bin, lastReq, env>>
    /\ UNCHANGED fsVars

(***************************************************************************)
(* Specifications.                                                         *)
(***************************************************************************)
\* QuickCleaner.__init__: every check box checked and enabled, the bar set
\* by refresh_browser_presence -> update_progress_max, self.cleaner = None.
InitWindow ==
    /\ checks = [b \in Browsers |-> TRUE]
    /\ cbEnabled = [b \in Browsers |-> TRUE]
    /\ btnEnabled = TRUE
    /\ closeEnabled = TRUE
    /\ ui = [status |-> "Ready", shown |-> 0,
             progMax |-> Len(BASE_TASKS) + Cardinality(Browsers), progValue |-> 0]
    /\ cleaner = 0
    /\ workers = <<>>
    /\ log = <<>>
    /\ delivered = 0
    /\ lastReq = NoReq

IdleFS ==
    /\ fs = TreeOf(Outside)
    /\ fs0 = fs
    /\ last = NoCall

Sources == {"button", "tray"}
ShellAnswers == BOOLEAN \X BOOLEAN

NextRun ==
    \/ \E b \in Browsers : ToggleBrowser(b)
    \/ \E src \in Sources : StartClean(src)
    \/ OnStage
    \/ OnProgress
    \/ OnDone
    \/ \E w \in 1..Len(workers) : WorkerBegin(w)
    \/ \E w \in 1..Len(workers) : WorkerStage(w)
    \/ \E w \in 1..Len(workers) : WorkerCall(w)
    \/ \E w \in 1..Len(workers) : WorkerCallRecycleBin(w)
    \/ \E w \in 1..Len(workers) : WorkerProgress(w)
    \/ \E w \in 1..Len(workers) : WorkerDone(w)
    \/ \E w \in 1..Len(workers) : WorkerExit(w)

\* The thread's side of one run: the check boxes are set, start_clean starts
\* the thread, and run() goes through its tasks.  The slots on_stage,
\* on_progress and on_done write nothing run() reads, and the signals wait in
\* the queue; SpecUI below adds them.
NextThread ==
    \/ \E b \in Browsers : ToggleBrowser(b)
    \/ \E src \in Sources : StartClean(src)
    \/ \E w \in 1..Len(workers) : WorkerBegin(w)
    \/ \E w \in 1..Len(workers) : WorkerStage(w)
    \/ \E w \in 1..Len(workers) : WorkerCall(w)
    \/ \E w \in 1..Len(workers) : WorkerCallRecycleBin(w)
    \/ \E w \in 1..Len(workers) : WorkerProgress(w)
    \/ \E w \in 1..Len(workers) : WorkerDone(w)
    \/ \E w \in 1..Len(workers) : WorkerExit(w)

\* One run, with every task outcome and every answer of the shell.
Init ==
    /\ InitWindow
    /\ IdleFS
    /\ bin \in 0..MaxBin
    /\ env = [outcomes |-> AllOutcomes, shell |-> ShellAnswers, budget |-> 1]
Spec == Init /\ [][NextThread]_vars

\* Up to MaxRuns runs one after the other; every task frees one byte and the
\* shell answers.
InitUI ==
    /\ InitWindow
    /\ IdleFS
    /\ bin = 0
    /\ env = [outcomes |-> {[k |-> "int", v |-> 1]}, shell |-> {<<TRUE, TRUE>>},
              budget |-> MaxRuns]
SpecUI == InitUI /\ [][NextRun]_vars

\* One call of a primitive on one of the file systems.
InitFS ==
    /\ InitWindow
    /\ fs \in FileSystems
    /\ fs0 = fs
    /\ last = NoCall
    /\ bin = 0
    /\ env = [outcomes |-> {}, shell |-> {}, budget |-> 0]

NextFS ==
    \/ \E p \in ArgPaths, strict \in Interpreters(fs) : CallSafeRemoveFile(p, strict)
    \/ \E p \in ArgPaths, strict \in Interpreters(fs) : CallWipeTree(p, strict)
    \/ \E p \in ArgPaths, strict \in Interpreters(fs) : CallWipeDirContents(p, strict)
    \/ \E p \in ArgPaths, strict \in Interpreters(fs) : CallDeleteGlobs(p, strict)
    \/ \E root \in {UD, <<"missing">>}, strict \in Interpreters(fs) :
           CallCleanChromium(root, strict)
SpecFS == InitFS /\ [][NextFS]_vars


(***************************************************************************)
(* Properties of the primitives (SpecFS).  fs0 is the file system before   *)
(* the call recorded in last, fs the one after it.                         *)
(***************************************************************************)
RECURSIVE SumSizes(_, _)
SumSizes(f, S) == IF S = {} THEN 0 ELSE f[Pick(S)].size + SumSizes(f, S \ {Pick(S)})

\* Everything at and below t is as it was.
SameBelow(t) == \A q \in DOMAIN fs0 : IsPrefix(t, q) => q \in DOMAIN fs /\ fs[q] = fs0[q]

\* The regular files below d that the call removed.
RemovedFiles(d) == {q \in DOMAIN fs0 \ DOMAIN fs : Under(d, q) /\ fs0[q].kind = "file"}

\* d is a directory and no component of d is a link.
IsRealDir(f, d) == d \in DOMAIN f /\ f[d].kind = "dir" /\ Lstat(f, d) = [st |-> "ok", path |-> d]

\* The links in the tree of d that point out of it.
OutLinks(d) ==
    {l \in DOMAIN fs0 : Under(d, l) /\ fs0[l].kind = "link" /\ ~IsPrefix(d, fs0[l].target)}

Wipes == {"wipe_dir_contents", "wipe_tree"}

\* C4: when wipe_dir_contents or wipe_tree is run on a directory whose tree
\* holds, at any depth, a symbolic link to a file or directory outside the
\* tree, the link's target and everything below it is afterwards as it was,
\* and the bytes returned are exactly the sizes of the regular files of the
\* tree that were removed (the target's bytes are not counted).
LinksInsideNotDereferenced ==
    (last.op \in Wipes /\ IsRealDir(fs0, last.arg) /\ OutLinks(last.arg) # {})
    => /\ \A l \in OutLinks(last.arg) : SameBelow(fs0[l].target)
       /\ ~last.raised
       /\ last.ret = SumSizes(fs0, RemovedFiles(last.arg))

\* C4 witness: a wipe of UserData/Cache, which held a regular file and, in a
\* nested directory, a link pointing out of the tree, removed both the file
\* and the nested directory and reported the file's bytes only.
LinksInsideWitness ==
    /\ last.op = "wipe_dir_contents"
    /\ last.arg = Append(UD, "Cache")
    /\ IsRealDir(fs0, last.arg)
    /\ \E l \in OutLinks(last.arg) : Len(l) > Len(last.arg) + 1 /\ l \notin DOMAIN fs
    /\ Children(fs, last.arg) = {}
    /\ last.ret = 512

\* The link d itself, or a link on the way from the root to a cache
\* directory, that a call goes through.
IsLink(f, p) == KindAt(f, Lstat(f, p)) = "link"
CacheRoutes(root) ==
    {root} \cup {Append(root, n) : n \in ChildNames(fs0, Stat(fs0, root).path)}
    \cup {Append(root, n) \o <<"Cache">> : n \in ChildNames(fs0, Stat(fs0, root).path)}
    \cup {Append(root, "Cache")}

\* C5: a call never goes through a link that is the target itself.  If the
\* directory given to wipe_dir_contents is a symbolic link, nothing is removed
\* and 0 is returned; if the browser root, a candidate profile directory or a
\* cache directory given to clean_chromium_user_data is a symbolic link to a
\* directory, nothing below the link's target is removed.
NeverThroughTargetLink ==
    /\ (last.op = "wipe_dir_contents" /\ IsLink(fs0, last.arg))
       => (fs = fs0 /\ last.ret = 0)
    /\ last.op = "clean_chromium_user_data"
       => \A p \in CacheRoutes(last.arg) :
             IsLink(fs0, p) => SameBelow(fs0[Lstat(fs0, p).path].target)

Primitives == {"safe_remove_file", "wipe_dir_contents", "wipe_tree", "delete_globs"}

\* C6: every deletion primitive is total: whatever the path, the call does
\* not raise and returns a non-negative integer.
PrimitivesTotal ==
    last.op \in Primitives => (~last.raised /\ last.ret >= 0)

\* No file below d is locked and no directory at or below d refuses access.
NoFault(f, d) == \A q \in DOMAIN f : IsPrefix(d, q) => f[q].mode \notin {"locked", "denied"}
\* No subdirectory of d holds a link (its rmdir would find it not empty).
NoNestedLink(f, d) == \A q \in DOMAIN f : (Under(d, q) /\ f[q].kind = "link") => Len(q) = Len(d) + 1
NoLink(f, d) == \A q \in DOMAIN f : Under(d, q) => f[q].kind # "link"
Dir0 == Stat(fs0, last.arg).path

CandidateDirs(root) ==
    {Stat(fs0, root).path} \cup {c \in Children(fs0, Stat(fs0, root).path) : fs0[c].kind = "dir"}
InCacheKind(root, q) ==
    \E base \in CandidateDirs(root), i \in 1..Len(rels) : Under(base \o rels[i], q)
Touched == {q \in DOMAIN fs0 : q \notin DOMAIN fs \/ fs[q] # fs0[q]}

\* C8: clean_chromium_user_data(root) does not raise, returns the sum of the
\* sizes of the regular files it removed, and removes or changes nothing but
\* entries strictly inside a cache directory of the root or of one of its
\* immediate subdirectories; a root that does not exist gives 0.
ChromiumCleansOnlyCaches ==
    last.op = "clean_chromium_user_data"
    => /\ ~last.raised
       /\ last.ret = SumSizes(fs0, {q \in Touched : q \notin DOMAIN fs /\ fs0[q].kind = "file"})
       /\ \A q \in Touched : InCacheKind(last.arg, q)
       /\ DOMAIN fs \subseteq DOMAIN fs0
       /\ Stat(fs0, last.arg).st = "noent" => last.ret = 0


(***************************************************************************)
(* Properties of the worker thread and the window (Spec, SpecUI).          *)
(***************************************************************************)
RECURSIVE EventsFrom(_, _)
EventsFrom(w, i) ==
    IF i > Len(log) THEN <<>>
    ELSE (IF log[i].run = w THEN <<log[i]>> ELSE <<>>) \o EventsFrom(w, i + 1)
\* The signals thread w has emitted, in order.
EventsOf(w) == EventsFrom(w, 1)
Count(ev, kind) == Cardinality({k \in 1..Len(ev) : ev[k].kind = kind})
Returned(w) == workers[w].pc \in {"exit", "finished"}
StepCount(w) == Len(workers[w].tasks)

\* The k-th signal of a run over tasks ts is what run() emits k-th.
AsRunEmits(ev, ts, k) ==
    IF k = 2 * Len(ts) + 1
    THEN ev[k].kind = "done" /\ ev[k].bytes = (IF k = 1 THEN 0 ELSE ev[k - 1].bytes)
    ELSE IF k % 2 = 1
    THEN /\ ev[k].kind = "stage"
         /\ ev[k].step = (k + 1) \div 2
         /\ ev[k].steps = Len(ts)
         /\ ev[k].name = ts[(k + 1) \div 2]
    ELSE /\ ev[k].kind = "progress"
         /\ ev[k].bytes >= 0
         /\ ev[k].bytes >= (IF k = 2 THEN 0 ELSE ev[k - 2].bytes)

\* C1: a run over N tasks emits stage(name_1,1,N), progress(t_1), ...,
\* stage(name_N,N,N), progress(t_N), done(t_N), in this order, with
\* 0 <= t_1 <= ... <= t_N; while the run is under way it has emitted a prefix
\* of this sequence, and once run() has returned all 2N+1 signals.
RunEmitsStageProgressDone ==
    \A w \in 1..Len(workers) :
        /\ Len(EventsOf(w)) <= 2 * StepCount(w) + 1
        /\ \A k \in 1..Len(EventsOf(w)) : AsRunEmits(EventsOf(w), workers[w].tasks, k)
        /\ Returned(w) => Len(EventsOf(w)) = 2 * StepCount(w) + 1

\* C1 witness: a run over the four base tasks and one browser task has
\* returned; some task added bytes and some task added none.
RunEmitsWitness ==
    \E w \in 1..Len(workers) :
        /\ Returned(w)
        /\ StepCount(w) = Len(BASE_TASKS) + 1
        /\ Len(EventsOf(w)) = 2 * StepCount(w) + 1
        /\ EventsOf(w)[2 * StepCount(w) + 1].bytes >= 2
        /\ EventsOf(w)[4].bytes = EventsOf(w)[2].bytes

\* C2: a task that raises does not end the run: the progress value after it
\* equals the one before it, and once run() has returned, every task has been
\* invoked and N stage, N progress and one done signal have been emitted.
FailingTaskAddsZero ==
    \A w \in 1..Len(workers) :
        /\ \A k \in workers[w].failed :
              Len(EventsOf(w)) >= 2 * k
              => EventsOf(w)[2 * k].bytes = (IF k = 1 THEN 0 ELSE EventsOf(w)[2 * k - 2].bytes)
        /\ (Returned(w) /\ workers[w].failed # {})
           => /\ workers[w].invoked = workers[w].tasks
              /\ Count(EventsOf(w), "stage") = StepCount(w)
              /\ Count(EventsOf(w), "progress") = StepCount(w)
              /\ Count(EventsOf(w), "done") = 1

\* C2 witness: a run has returned in which the third task raised, after bytes
\* had been freed, and the tasks after it were invoked and freed more.
FailingTaskWitness ==
    \E w \in 1..Len(workers) :
        /\ Returned(w)
        /\ 3 \in workers[w].failed
        /\ Len(workers[w].invoked) = StepCount(w)
        /\ EventsOf(w)[4].bytes > 0
        /\ EventsOf(w)[2 * StepCount(w) + 1].bytes > EventsOf(w)[6].bytes

\* C9: when the size query or the emptying of the recycle bin fails, the
\* recycle-bin task adds 0 to the run's total: the first progress value of a
\* run whose recycle-bin call met a failure is 0.
TrashFailureAddsZero ==
    \A w \in 1..Len(workers) :
        (workers[w].binFail /\ Len(EventsOf(w)) >= 2) => EventsOf(w)[2].bytes = 0

Active == {w \in 1..Len(workers) : workers[w].running}

\* C3: at most one run is active; the signals of two runs do not interleave;
\* a start_clean call made while the thread is running changes neither the
\* threads (their task lists, step counts and totals), nor self.cleaner, nor
\* the signals emitted, nor what the window shows.
OneRunAtATime ==
    /\ [](Cardinality(Active) <= 1)
    /\ [](\A i, j \in 1..Len(log) : i < j => log[i].run <= log[j].run)
    /\ [][((\E src \in Sources : StartClean(src)) /\ IsRunning)
            => UNCHANGED <<workers, cleaner, log, delivered, ui, checks, cbEnabled,
                           btnEnabled, closeEnabled>>]_vars

\* C3 witness: the tray action asked for a run while the thread was between
\* two signals of its run, and was turned down.
OneRunWitness ==
    /\ lastReq.result = "rejected"
    /\ lastReq.src = "tray"
    /\ IsRunning
    /\ workers[cleaner].pc = "call"
    /\ workers[cleaner].i = 2
    /\ Len(workers) = 1

\* C10: a start_clean call made after on_done has handled the done signal of
\* the previous run is accepted.
RestartAfterDoneAccepted ==
    ~(lastReq.result = "rejected" /\ lastReq.afterDone)

====
